---- MODULE Spec2Model ----
(***************************************************************************)
(* Model of patchy/core.py: the patch-application engine (PatchBase.apply  *)
(* and its add / merge / auto front ends), the predecessor registry        *)
(* (PatchyRecords), the call-through primitive super_patchy and the name   *)
(* resolver resolve.                                                       *)
(*                                                                         *)
(* Python objects are modelled by identity: a value is a record            *)
(* [kind, id]; the contents of a list or dict live in a heap keyed by the  *)
(* container's id, so that "the same object" and "equal contents" differ.  *)
(***************************************************************************)
EXTENDS Integers, Sequences, FiniteSets, TLC

VARIABLES
    attrs,      \* attrs[o][n]: value stored under name n on object o (NoneV: absent)
    lists,      \* lists[id]: contents of the list object id
    dicts,      \* dicts[id]: contents of the dict object id
    records,    \* patchy_records: id(code) -> predecessor
    nops,       \* number of patch operations performed so far
    last,       \* the last call of the apply engine and its outcome
    pre,        \* attrs, lists, dicts, records as they were when that call started
    installed,  \* history: every callable the engine wrote, and whether it replaced a value
    called,     \* the call-through observed at the end of the run
    thr,        \* per thread: position inside PatchBase.apply and its locals
    order,      \* threads in the order in which they executed line 145
    rcall,      \* the last call of resolve and its outcome
    pcall       \* the last call of patchy or PatchModule.mod and its outcome

vars == <<attrs, lists, dicts, records, nops, last, pre, installed, called, thr, order, rcall,
          pcall>>

-----------------------------------------------------------------------------
(* Bounds *)

MaxBatch == 2       \* positional entries in one add / merge / apply call
MaxLen == 4         \* longest list the heap may hold
MaxOps == 2         \* patch operations in one run
MaxDots == 3        \* components in a dotted name handed to resolve

-----------------------------------------------------------------------------
(* Values *)

NoneV == [kind |-> "none", id |-> "None"]
F(i) == [kind |-> "func", id |-> i]
L(i) == [kind |-> "list", id |-> i]
D(i) == [kind |-> "dict", id |-> i]
I(i) == [kind |-> "int", id |-> i]
S(i) == [kind |-> "str", id |-> i]

\* The classes being patched and the classes patches are taken from.
Targets == {"Foo", "Baz"}
Sources == {"Bar", "Alt"}
Objs == Targets \cup Sources

\* g, h: the methods the targets define themselves.  f1, f2: patch
\* functions.  f1b: a second closure made from the same def as f1.
Originals == {"g", "h"}
Patches == {"f1", "f1b", "f2"}
Funcs == Originals \cup Patches

\* f.__code__: two closures of one def share their code object.
CodeOf(f) == IF f \in {"f1", "f1b"} THEN "code_f1" ELSE "code_" \o f

\* f.__name__
NameOf(f) == "greet"

\* Name of the first positional parameter of f.
FirstParam(f) == "self"

Names == {"greet", "items", "conf", "only", "_hid"}

\* obj.__dict__ iterates in definition order.
DictOrder == <<"greet", "items", "conf", "only", "_hid">>

\* k.startswith('_')
Hidden(n) == n \in {"_hid"}

callable(v) == v.kind = "func"

hasName(v) == v.kind = "func"

\* isinstance(v, types), types one of object, list, dict, FunctionType
TypeFilters == {"object", "list", "dict"}
isinstance(v, ty) == ty = "object" \/ v.kind = ty

-----------------------------------------------------------------------------
(* PatchyRecords *)

\* with suppress(AttributeError): key = key.__code__ ; id(key)
KeyOf(v) == IF v.kind = "func" THEN CodeOf(v.id) ELSE v.id

\* Strip inbuilt decorators: classmethod / staticmethod objects give __func__.
Strip(v) == IF v.kind \in {"classmethod", "staticmethod"} THEN F(v.id) ELSE v

\* PatchyRecords.__contains__
Records_contains(recs, key) == KeyOf(key) \in DOMAIN recs

\* A registry that keeps the first value recorded under a key.
Records_setdefault(recs, key, value) ==
    IF KeyOf(key) \in DOMAIN recs THEN recs
    ELSE [k \in DOMAIN recs \cup {KeyOf(key)} |->
            IF k = KeyOf(key) THEN Strip(value) ELSE recs[k]]

\* PatchyRecords.__setitem__
Records_setitem(recs, key, value) ==
    [k \in DOMAIN recs \cup {KeyOf(key)} |->
        IF k = KeyOf(key) THEN Strip(value) ELSE recs[k]]

\* PatchyRecords.__getitem__: the value found, or the RuntimeError of line 86.
Records_getitem(recs, key) ==
    IF KeyOf(key) \in DOMAIN recs
    THEN [exc |-> "none", value |-> recs[KeyOf(key)]]
    ELSE [exc |-> "RuntimeError", value |-> NoneV]

-----------------------------------------------------------------------------
(* Attribute access *)

\* The patch state the apply loop reads and writes.
State(a, l, d, r) == [attrs |-> a, lists |-> l, dicts |-> d, records |-> r]

\* inspect.getattr_static(target, attr, None)
getattr_static(st, obj, n) == st.attrs[obj][n]

\* getattr(obj, n): the value, or AttributeError when obj has no n.
getattr(st, obj, n) ==
    IF st.attrs[obj][n] = NoneV
    THEN [exc |-> "AttributeError", value |-> NoneV]
    ELSE [exc |-> "none", value |-> st.attrs[obj][n]]

RECURSIVE SelectNames(_, _, _, _, _)
SelectNames(st, obj, ks, types, exclude_hidden) ==
    IF ks = <<>> THEN <<>>
    ELSE LET k == Head(ks)
             rest == SelectNames(st, obj, Tail(ks), types, exclude_hidden)
         IN IF st.attrs[obj][k] # NoneV
               /\ (~exclude_hidden \/ ~Hidden(k))
               /\ isinstance(st.attrs[obj][k], types)
            THEN <<S(k)>> \o rest
            ELSE rest

\* The locally declared attributes of obj filtered by type, in __dict__ order.
get_attrs(st, obj, types) == SelectNames(st, obj, DictOrder, types, TRUE)

-----------------------------------------------------------------------------
(* PatchBase.apply *)

\* kattrs is a dict: a sequence of [name, value] items in insertion order.
RECURSIVE DictHas(_, _)
DictHas(items, n) ==
    IF items = <<>> THEN FALSE
    ELSE Head(items).name = n \/ DictHas(Tail(items), n)

\* kattrs[n] = v: an existing key keeps its position, a new key goes last.
DictSet(items, n, v) ==
    IF DictHas(items, n)
    THEN [i \in 1..Len(items) |->
            IF items[i].name = n THEN [name |-> n, value |-> v] ELSE items[i]]
    ELSE Append(items, [name |-> n, value |-> v])

\* Lines 131-137: file every positional entry into kattrs.  kattrs is
\* [none |-> TRUE/FALSE, items |-> ...]; the result carries the exception
\* raised, if any.
RECURSIVE Normalize(_, _, _, _)
Normalize(st, source, attrs_, kattrs) ==
    IF attrs_ = <<>> THEN [exc |-> "none", kattrs |-> kattrs]
    ELSE LET attr == Head(attrs_)
             k0 == IF kattrs.none \/ kattrs.items = <<>>
                   THEN <<>> ELSE kattrs.items
         IN IF hasName(attr)
            THEN Normalize(st, source, Tail(attrs_),
                    [none |-> FALSE, items |-> DictSet(k0, NameOf(attr.id), attr)])
            ELSE LET got == getattr(st, source, attr.id)
                 IN IF got.exc # "none"
                    THEN [exc |-> got.exc, kattrs |-> kattrs]
                    ELSE Normalize(st, source, Tail(attrs_),
                            [none |-> FALSE, items |-> DictSet(k0, attr.id, got.value)])

\* d.update(value)
dict_update(d, value) ==
    [k \in DOMAIN d \cup DOMAIN value |-> IF k \in DOMAIN value THEN value[k] ELSE d[k]]

\* l.extend(value)
list_extend(l, value) == l \o value

\* Lines 147-151: merge collections into the container the target holds.
MergeStep(st, target, attr, value, old_value) ==
    IF value.kind = "dict" /\ old_value.kind = "dict"
    THEN LET cur == st.attrs[target][attr]
         IN [st EXCEPT !.dicts[cur.id] = dict_update(st.dicts[cur.id], st.dicts[value.id])]
    ELSE IF value.kind = "list" /\ old_value.kind = "list"
    THEN LET cur == st.attrs[target][attr]
         IN [st EXCEPT !.lists[cur.id] = list_extend(st.lists[cur.id], st.lists[value.id])]
    ELSE st

\* Line 154: setattr(self.target, attr, value)
setattr(st, target, attr, value) == [st EXCEPT !.attrs[target][attr] = value]

\* A guard that never fires.
NeverPatched(st, value, old_value) == FALSE

\* Line 143: the duplicate-patching guard of one entry.
AlreadyPatched(st, value, old_value) ==
    callable(value) /\ callable(old_value) /\ Records_contains(st.records, value)

\* Lines 139-154 for one entry whose guard did not fire.
ApplyEntry(st, target, attr, value, merge) ==
    LET old_value == getattr_static(st, target, attr)
        st1 == IF callable(value) /\ callable(old_value)
               THEN [st EXCEPT !.records = Records_setitem(st.records, value, old_value)]
               ELSE st
        st2 == IF merge THEN MergeStep(st1, target, attr, value, old_value) ELSE st1
    IN setattr(st2, target, attr, value)

\* The loop with line 144 reading "continue": a guarded item is skipped and
\* the items after it are still processed.
RECURSIVE ApplyLoopSkip(_, _, _, _, _)
ApplyLoopSkip(st, target, items, merge, done) ==
    IF items = <<>> THEN [st |-> st, done |-> done, returned |-> FALSE]
    ELSE LET attr == Head(items).name
             value == Head(items).value
             old_value == getattr_static(st, target, attr)
         IN IF AlreadyPatched(st, value, old_value)
            THEN ApplyLoopSkip(st, target, Tail(items), merge, done)
            ELSE ApplyLoopSkip(ApplyEntry(st, target, attr, value, merge),
                               target, Tail(items), merge, done + 1)

\* Lines 138-154: the loop over kattrs.items(); line 144 returns from apply.
\* The result also tells how many entries were processed before the return.
RECURSIVE ApplyLoop(_, _, _, _, _)
ApplyLoop(st, target, items, merge, done) ==
    IF items = <<>> THEN [st |-> st, done |-> done, returned |-> FALSE]
    ELSE LET attr == Head(items).name
             value == Head(items).value
             old_value == getattr_static(st, target, attr)
         IN IF AlreadyPatched(st, value, old_value)
            THEN [st |-> st, done |-> done, returned |-> TRUE]
            ELSE ApplyLoop(ApplyEntry(st, target, attr, value, merge),
                           target, Tail(items), merge, done + 1)

\* An apply that writes the entries filed before a failing one, then raises.
apply_eager(st, target, source, attrs_, kattrs, merge) ==
    LET norm == Normalize(st, source, attrs_, kattrs)
        items == IF norm.kattrs.none THEN <<>> ELSE norm.kattrs.items
        r == ApplyLoop(st, target, items, merge, 0)
    IN IF norm.exc # "none"
       THEN [exc |-> norm.exc, st |-> r.st, items |-> <<>>, done |-> 0, returned |-> FALSE]
       ELSE IF norm.kattrs.none
       THEN [exc |-> "AttributeError", st |-> st, items |-> <<>>, done |-> 0,
             returned |-> FALSE]
       ELSE [exc |-> "none", st |-> r.st, items |-> norm.kattrs.items,
             done |-> r.done, returned |-> r.returned]

\* PatchBase.apply(attrs, kattrs, merge) on the session (target, source).
apply(st, target, source, attrs_, kattrs, merge) ==
    LET norm == Normalize(st, source, attrs_, kattrs)
    IN IF norm.exc # "none"
       THEN [exc |-> norm.exc, st |-> st, items |-> <<>>, done |-> 0, returned |-> FALSE]
       ELSE IF norm.kattrs.none
       THEN \* None.items()
            [exc |-> "AttributeError", st |-> st, items |-> <<>>, done |-> 0,
             returned |-> FALSE]
       ELSE LET r == ApplyLoop(st, target, norm.kattrs.items, merge, 0)
            IN [exc |-> "none", st |-> r.st, items |-> norm.kattrs.items,
                done |-> r.done, returned |-> r.returned]

-----------------------------------------------------------------------------
(* PatchClass.add_desc *)

\* Lines 211-212: every keyword item is written onto the target.
RECURSIVE DescNamed(_, _, _)
DescNamed(st, target, items) ==
    IF items = <<>> THEN st
    ELSE DescNamed(setattr(st, target, Head(items).name, Head(items).value),
                   target, Tail(items))

\* add_desc carried out by the apply engine.
add_desc_applied(st, target, source, attrs_, kattrs) ==
    apply(st, target, source, attrs_, kattrs, FALSE)

\* Lines 213-220: the positional entries; source.__dict__[attr] raises
\* KeyError for a name the source does not declare.  written collects the
\* items written so far.
RECURSIVE DescPositional(_, _, _, _, _)
DescPositional(st, target, source, attrs_, written) ==
    IF attrs_ = <<>> THEN [exc |-> "none", st |-> st, items |-> written]
    ELSE LET attr == Head(attrs_)
             name == IF hasName(attr) THEN NameOf(attr.id) ELSE attr.id
             value == IF hasName(attr) THEN attr ELSE st.attrs[source][name]
         IN IF ~hasName(attr) /\ st.attrs[source][name] = NoneV
            THEN [exc |-> "KeyError", st |-> st, items |-> written]
            ELSE DescPositional(setattr(st, target, name, value), target, source,
                                Tail(attrs_),
                                Append(written, [name |-> name, value |-> value]))

\* PatchClass.add_desc(*attrs, **kattrs) on the session (target, source).
add_desc(st, target, source, attrs_, kattrs) ==
    DescPositional(DescNamed(st, target, kattrs.items), target, source, attrs_,
                   kattrs.items)

-----------------------------------------------------------------------------
(* super_patchy *)

MaxDepth == 4       \* nested calls before the interpreter gives up (RecursionError)

\* Instances of the target classes, and the extra arguments of a call.
Instances == {"x_Foo", "x_Baz"}
ArgChoices == {<<"a1">>}

\* What the functions of the scenario do: the originals return a greeting,
\* a patch returns super_patchy(*args) followed by its own mark.
ReturnOf(f) == IF f = "g" THEN <<"hi">> ELSE <<"hey">>
MarkOf(f) == IF CodeOf(f) = "code_f1" THEN "!" ELSE "?"

\* Lines 32-42 up to the call: the function to call and its arguments.
\* caller is the function whose frame calls super_patchy, first the value
\* of its first parameter.
super_patchy(recs, caller, first, args) ==
    LET found == Records_getitem(recs, [kind |-> "code", id |-> CodeOf(caller)])
    IN IF found.exc # "none"
       THEN [exc |-> found.exc, func |-> NoneV, callargs |-> <<>>]
       ELSE IF FirstParam(caller) \in {"self", "cls"}
       THEN \* MethodType(old_func, first)(*args)
            [exc |-> "none", func |-> found.value, callargs |-> <<first>> \o args]
       ELSE [exc |-> "none", func |-> found.value, callargs |-> args]

\* f(*callargs) with do_call left at its default: the exception raised, the
\* value returned and the functions entered, outermost first.
RECURSIVE Invoke(_, _, _, _)
Invoke(recs, f, callargs, fuel) ==
    IF fuel = 0
    THEN [exc |-> "RecursionError", value |-> <<>>, trace |-> <<>>]
    ELSE IF f \in Originals
    THEN [exc |-> "none", value |-> ReturnOf(f),
          trace |-> <<[func |-> f, args |-> callargs]>>]
    ELSE LET sp == super_patchy(recs, f, Head(callargs), Tail(callargs))
             me == <<[func |-> f, args |-> callargs]>>
         IN IF sp.exc # "none"
            THEN [exc |-> sp.exc, value |-> <<>>, trace |-> me]
            ELSE LET r == Invoke(recs, sp.func.id, sp.callargs, fuel - 1)
                 IN [exc |-> r.exc,
                     value |-> IF r.exc = "none" THEN Append(r.value, MarkOf(f)) ELSE <<>>,
                     trace |-> me \o r.trace]

-----------------------------------------------------------------------------
(* resolve *)

\* The import system the resolver runs against: the modules that can be
\* imported, by dotted path, and the attributes each one has.
Modules == {<<"pkg">>, <<"pkg", "sub">>}

ModAttrs(path) ==
    IF path = <<"pkg">> THEN {"sub", "Cls"}
    ELSE IF path = <<"pkg", "sub">> THEN {"Cls", "fn"}
    ELSE {}

Components == {"pkg", "sub", "Cls", "nope"}

NoObj == [kind |-> "none", path |-> <<>>]
Mod(path) == [kind |-> "module", path |-> path]
StrArg(path) == [kind |-> "str", path |-> path]

\* A dotted path as text: the components with "." between them.
RECURSIVE Dotted(_)
Dotted(path) ==
    IF Len(path) <= 1 THEN path
    ELSE <<Head(path), ".">> \o Dotted(Tail(path))

\* importlib.import_module(name, package_name); relative tells whether the
\* name was given with a leading dot.
import_module(relative, name, package_name) ==
    LET abs == IF relative THEN package_name \o name ELSE name
    IN IF abs \in Modules
       THEN [exc |-> "none", module |-> Mod(abs), message |-> <<>>]
       ELSE [exc |-> "ModuleNotFoundError", module |-> NoObj,
             message |-> <<"No module named ">> \o Dotted(abs)]

\* Lines 65-67: the ImportError resolve raises.  name is the text bound to
\* the variable name at that point, package the object bound to package.
NotValid(name, package) ==
    [exc |-> "ImportError", result |-> NoObj,
     message |-> name \o <<" is not a valid class or module name">>
                 \o (IF package.kind # "none"
                     THEN <<", within ">> \o Dotted(package.path) ELSE <<>>)]

\* Lines 55-63, name holding at least one dot.
ResolveDotted(name, package, package_name) ==
    LET mod == SubSeq(name, 1, Len(name) - 1)
        last_ == <<name[Len(name)]>>
        imp == import_module(package.kind # "none", mod, package_name)
    IN IF imp.exc # "none"
       THEN NotValid(Dotted(last_), package)
       ELSE IF last_[1] \in ModAttrs(imp.module.path)
       THEN [exc |-> "none",
             result |-> [kind |-> "attr", path |-> imp.module.path \o last_],
             message |-> <<>>]
       ELSE NotValid(Dotted(last_), imp.module)

\* Lines 59-63, name holding no dot.
ResolvePlain(name, package) ==
    IF package.kind # "module"
    THEN \* import_module(None): None has no startswith
         [exc |-> "AttributeError", result |-> NoObj,
          message |-> <<"'NoneType' object has no attribute 'startswith'">>]
    ELSE IF name[1] \in ModAttrs(package.path)
    THEN [exc |-> "none", result |-> [kind |-> "attr", path |-> package.path \o name],
          message |-> <<>>]
    ELSE NotValid(Dotted(name), package)

\* Lines 50-67, package being None or a module.
ResolveIn(name, package) ==
    LET package_name == package.path
        first == import_module(package.kind # "none", name, package_name)
    IN IF first.exc = "none"
       THEN [exc |-> "none", result |-> first.module, message |-> <<>>]
       ELSE IF Len(name) > 1
       THEN ResolveDotted(name, package, package_name)
       ELSE ResolvePlain(name, package)

\* resolve(name, package): name a dotted path, package None, a module or
\* the dotted name of one.
resolve(name, package) ==
    IF package.kind = "str"
    THEN LET imp == import_module(FALSE, package.path, <<>>)
         IN IF imp.exc # "none"
            THEN [exc |-> imp.exc, result |-> NoObj, message |-> imp.message]
            ELSE ResolveIn(name, imp.module)
    ELSE ResolveIn(name, package)

-----------------------------------------------------------------------------
(* patchy and PatchModule.mod *)

\* Objects handed to the entry points besides modules and names: what
\* getattr(package, name) returns, and an int.
Attr(path) == [kind |-> "attr", path |-> path]
IntObj == [kind |-> "int", path |-> <<>>]

\* type(obj), as far as the isinstance tests of lines 21, 23 and 196 tell.
TypeOf(obj) ==
    CASE obj.kind = "module" -> "module"
      [] obj.kind = "attr" /\ obj.path[Len(obj.path)] = "Cls" -> "type"
      [] obj.kind = "attr" /\ obj.path[Len(obj.path)] = "sub" -> "module"
      [] obj.kind = "attr" -> "function"
      [] obj.kind = "none" -> "NoneType"
      [] OTHER -> obj.kind

\* bool(obj): None is false, modules, classes and functions are true; an
\* int stands for a non-zero one.
truthy(obj) == obj.kind # "none"

\* hasattr(obj, "__name__")
HasDunderName(obj) == TypeOf(obj) \in {"module", "type", "function"}

\* obj.__name__: the dotted path of a module, the bare name of a class or
\* function.
DunderName(obj) ==
    IF TypeOf(obj) = "module" THEN obj.path ELSE <<obj.path[Len(obj.path)]>>

\* name.replace('.', sep): one component holding the joined text.
RECURSIVE Replace(_, _)
Replace(path, sep) ==
    IF Len(path) = 1 THEN path[1]
    ELSE path[1] \o sep \o Replace(Tail(path), sep)

\* module_sep as PatchModule.__init__ defaults it.
module_sep == "_"

\* What an entry point gives back: the exception raised, or the kind of
\* session returned ("None": no session) with its target and source.
Raised(exc) == [exc |-> exc, session |-> "None", target |-> NoObj, source |-> NoObj]
Returned(session, target, source) ==
    [exc |-> "none", session |-> session, target |-> target, source |-> source]

\* A dispatch that asks only for the kind of the target.
DispatchOnTarget(target, source) ==
    IF TypeOf(target) = "module" THEN Returned("PatchModule", target, source)
    ELSE IF TypeOf(target) = "type" THEN Returned("PatchClass", target, source)
    ELSE Returned("None", NoObj, NoObj)

\* Lines 21-24: dispatch on the kind of the target.
Dispatch(target, source) ==
    IF TypeOf(target) = "module" THEN Returned("PatchModule", target, source)
    ELSE IF TypeOf(target) = "type" /\ truthy(source)
    THEN Returned("PatchClass", target, source)
    ELSE Returned("None", NoObj, NoObj)

\* patchy(target, source): a str argument is resolved first.
patchy(target, source) ==
    LET t == IF target.kind = "str" THEN resolve(target.path, NoObj)
             ELSE [exc |-> "none", result |-> target]
    IN IF t.exc # "none" THEN Raised(t.exc)
       ELSE LET s == IF source.kind = "str" THEN resolve(source.path, NoObj)
                     ELSE [exc |-> "none", result |-> source]
            IN IF s.exc # "none" THEN Raised(s.exc)
               ELSE Dispatch(t.result, s.result)

\* Lines 185-194 of PatchModule.mod: the source of the new session.
ModSource(self_source, target, source) ==
    IF source.kind = "str"
    THEN IF ~HasDunderName(self_source)
         THEN [exc |-> "AttributeError", result |-> NoObj]
         ELSE resolve(source.path, StrArg(DunderName(self_source)))
    ELSE IF source.kind = "none"
    THEN IF ~HasDunderName(target) \/ ~HasDunderName(self_source)
         THEN [exc |-> "AttributeError", result |-> NoObj]
         ELSE LET source_name == <<Replace(DunderName(target), module_sep)>>
                  r == resolve(source_name, StrArg(DunderName(self_source)))
              IN IF r.exc \in {"ImportError", "ModuleNotFoundError"}
                 THEN [exc |-> "none", result |-> NoObj]    \* suppress(ImportError)
                 ELSE r
    ELSE [exc |-> "none", result |-> source]

\* PatchModule.mod(target, source) on the session (self_target, self_source).
mod(self_target, self_source, target, source) ==
    LET t == IF target.kind = "str"
             THEN resolve(target.path, StrArg(DunderName(self_target)))
             ELSE [exc |-> "none", result |-> target]
    IN IF t.exc # "none" THEN Raised(t.exc)
       ELSE LET s == ModSource(self_source, t.result, source)
            IN IF s.exc # "none" THEN Raised(s.exc)
               ELSE IF TypeOf(t.result) = "module"
               THEN Returned("PatchModule", t.result, s.result)
               ELSE Returned("None", NoObj, NoObj)

-----------------------------------------------------------------------------
(* The single-threaded patching program *)

Cur == State(attrs, lists, dicts, records)

\* The patch sessions (target, source) of a run.
Sessions == {<<"Foo", "Bar">>, <<"Baz", "Bar">>}

NoKw == [none |-> FALSE, items |-> <<>>]        \* **kattrs of a call without keywords
NoneKw == [none |-> TRUE, items |-> <<>>]       \* kattrs=None

\* Positional entries of add and merge: names of attributes of the source.
Entries == {S("greet"), S("items"), S("only")}

\* A batch names each attribute once; the name the source lacks, when
\* present, comes after the valid ones.
Batches ==
    {b \in UNION {[1..n -> Entries] : n \in 1..MaxBatch} :
        /\ \A i, j \in DOMAIN b : i # j => b[i] # b[j]
        /\ \A i \in DOMAIN b : b[i] = S("only") => i = Len(b)}

\* Arguments of a direct call of apply.
ApplyAttrs == {<<>>, <<S("conf")>>, <<F("f2")>>}
ApplyKw == {NoneKw, [none |-> FALSE, items |-> <<[name |-> "greet", value |-> F("f2")]>>]}

NoLast ==
    [op |-> "none", target |-> "None", source |-> "None", explicit |-> "None",
     types |-> "object", attrs |-> <<>>, kw |-> NoKw, merge |-> FALSE, again |-> FALSE,
     exc |-> "none", items |-> <<>>, done |-> 0, returned |-> FALSE]

NoCall ==
    [op |-> "none", func |-> "None", self |-> "None", args |-> <<>>,
     exc |-> "none", value |-> <<>>, trace |-> <<>>]

NoThreads == [t \in {"t1", "t2"} |-> [pc |-> "idle", target |-> "None",
                                       value |-> NoneV, old_value |-> NoneV]]

NoResolve == [name |-> <<>>, package |-> [kind |-> "none", path |-> <<>>],
              exc |-> "none", result |-> [kind |-> "none", path |-> <<>>],
              message |-> <<>>]

NoEntry == [op |-> "none", self_target |-> NoObj, self_source |-> NoObj,
            target |-> NoObj, source |-> NoObj, exc |-> "none",
            session |-> "None", new_target |-> NoObj, new_source |-> NoObj]

InitAttrs(bazGreet) ==
    [o \in Objs |-> [n \in Names |->
        CASE o = "Foo" /\ n = "greet" -> F("g")
          [] o = "Foo" /\ n = "items" -> L("L1")
          [] o = "Foo" /\ n = "conf" -> D("D1")
          [] o = "Baz" /\ n = "greet" -> bazGreet
          [] o = "Bar" /\ n = "greet" -> F("f1")
          [] o = "Bar" /\ n = "items" -> L("LB")
          [] o = "Bar" /\ n = "conf" -> D("DB")
          [] o = "Bar" /\ n = "_hid" -> I("9")
          [] o = "Alt" /\ n = "greet" -> F("f1b")
          [] o = "Alt" /\ n = "items" -> L("LA")
          [] o = "Alt" /\ n = "only" -> I("8")
          [] OTHER -> NoneV]]

InitLists == [i \in {"L1", "LB", "LA"} |->
                CASE i = "L1" -> <<1, 2>> [] i = "LB" -> <<3, 4>> [] OTHER -> <<5>>]

InitDicts == [i \in {"D1", "DB"} |->
                IF i = "D1" THEN [k \in {"a", "k"} |-> 1] ELSE [k \in {"b", "k"} |-> 2]]

Init ==
    /\ \E bazGreet \in {NoneV, F("h")} : attrs = InitAttrs(bazGreet)
    /\ lists = InitLists
    /\ dicts = InitDicts
    /\ records = << >>
    /\ nops = 0
    /\ last = NoLast
    /\ pre = State(attrs, lists, dicts, records)
    /\ installed = {}
    /\ called = NoCall
    /\ thr = NoThreads
    /\ order = <<>>
    /\ rcall = NoResolve
    /\ pcall = NoEntry

\* The heap stays within the bound.
Fits(st) == \A i \in DOMAIN st.lists : Len(st.lists[i]) <= MaxLen

\* The callables line 154 wrote in a call that processed the first `done`
\* items, each with whether the target held a value under that name.
Written(target, items, done) ==
    {[func |-> items[i].value.id, had |-> attrs[target][items[i].name] # NoneV] :
        i \in {j \in 1..done : callable(items[j].value)}}

\* This call repeats the call before it: same operation, session and arguments.
Repeats(call) ==
    /\ last.op = call.op /\ last.target = call.target /\ last.source = call.source
    /\ last.explicit = call.explicit /\ last.types = call.types
    /\ last.attrs = call.attrs /\ last.kw = call.kw /\ last.merge = call.merge

\* A call of the apply engine took place: r is what apply returned.  Patching
\* comes first in a run, the call-through that observes it comes last.
Commit(r, call) ==
    /\ nops < MaxOps
    /\ called.op = "none"
    /\ Fits(r.st)
    /\ attrs' = r.st.attrs
    /\ lists' = r.st.lists
    /\ dicts' = r.st.dicts
    /\ records' = r.st.records
    /\ nops' = nops + 1
    /\ pre' = Cur
    /\ last' = [call EXCEPT !.exc = r.exc, !.items = r.items, !.done = r.done,
                            !.returned = r.returned, !.again = Repeats(call)]
    /\ installed' = installed \cup Written(call.target, r.items, r.done)
    /\ UNCHANGED <<called, thr, order, rcall, pcall>>

\* PatchBase.add(*attrs) on the session (t, s)
Add(t, s, batch) ==
    Commit(apply(Cur, t, s, batch, NoKw, FALSE),
           [NoLast EXCEPT !.op = "add", !.target = t, !.source = s, !.attrs = batch])

\* PatchBase.merge(*attrs) on the session (t, s)
Merge(t, s, batch) ==
    Commit(apply(Cur, t, s, batch, NoKw, TRUE),
           [NoLast EXCEPT !.op = "merge", !.target = t, !.source = s, !.attrs = batch,
                          !.merge = TRUE])

\* PatchBase.auto(source=explicit, merge=m, types=ty) on the session (t, s)
Auto(t, s, explicit, m, ty) ==
    LET from == IF explicit # "None" THEN explicit ELSE s
        attrs_ == get_attrs(Cur, from, ty)
    IN Commit(apply(Cur, t, s, attrs_, NoneKw, m),
              [NoLast EXCEPT !.op = "auto", !.target = t, !.source = s,
                             !.explicit = explicit, !.types = ty, !.attrs = attrs_,
                             !.kw = NoneKw, !.merge = m])

\* PatchBase.apply(attrs, kattrs, merge) called directly on the session (t, s)
Apply(t, s, attrs_, kw, m) ==
    Commit(apply(Cur, t, s, attrs_, kw, m),
           [NoLast EXCEPT !.op = "apply", !.target = t, !.source = s, !.attrs = attrs_,
                          !.kw = kw, !.merge = m])

\* Arguments of add_desc: positional entries and keyword items.
DescCalls ==
    {[attrs |-> <<S("greet")>>, kw |-> NoKw],
     [attrs |-> <<F("f2")>>, kw |-> NoKw],
     [attrs |-> <<S("only")>>,
      kw |-> [none |-> FALSE, items |-> <<[name |-> "conf", value |-> I("7")]>>]]}

\* PatchClass.add_desc(*attrs, **kattrs) on the session (t, s)
AddDesc(t, s, c) ==
    LET r == add_desc(Cur, t, s, c.attrs, c.kw)
        call == [NoLast EXCEPT !.op = "add_desc", !.target = t, !.source = s,
                               !.attrs = c.attrs, !.kw = c.kw]
    IN /\ nops < MaxOps
       /\ called.op = "none"
       /\ attrs' = r.st.attrs
       /\ lists' = r.st.lists
       /\ dicts' = r.st.dicts
       /\ records' = r.st.records
       /\ nops' = nops + 1
       /\ pre' = Cur
       /\ last' = [call EXCEPT !.exc = r.exc, !.items = r.items, !.done = Len(r.items),
                               !.again = Repeats(call)]
       /\ UNCHANGED <<installed, called, thr, order, rcall, pcall>>

\* The patch function f is called as f(x, *args) and calls super_patchy(*args);
\* a run ends with one such call.
Call(f, x, args) ==
    LET r == Invoke(records, f, <<x>> \o args, MaxDepth)
    IN /\ called.op = "none"
       /\ called' = [op |-> "call", func |-> f, self |-> x, args |-> args,
                     exc |-> r.exc, value |-> r.value, trace |-> r.trace]
       /\ UNCHANGED <<attrs, lists, dicts, records, nops, last, pre, installed,
                      thr, order, rcall, pcall>>

Next ==
    \/ \E ses \in Sessions, b \in Batches : Add(ses[1], ses[2], b)
    \/ \E ses \in Sessions, b \in Batches : Merge(ses[1], ses[2], b)
    \* auto is called with merge left at its default
    \/ \E ses \in Sessions, e \in {"None", "Alt"}, ty \in TypeFilters :
          Auto(ses[1], ses[2], e, TRUE, ty)
    \/ \E ses \in Sessions, a \in ApplyAttrs, kw \in ApplyKw, m \in BOOLEAN :
          Apply(ses[1], ses[2], a, kw, m)
    \/ \E ses \in Sessions, c \in DescCalls : AddDesc(ses[1], ses[2], c)
    \/ \E f \in Patches, x \in Instances, a \in ArgChoices : Call(f, x, a)

Spec == Init /\ [][Next]_vars

-----------------------------------------------------------------------------
(* Claims about the single-threaded program *)

\* The last call was a call of the apply engine.
PatchOp == last.op \in {"add", "merge", "auto", "apply"}

\* The class an instance belongs to.
InstanceOf(x) == IF x = "x_Foo" THEN "Foo" ELSE "Baz"

\* Item i of the last call was processed: lines 139-154 ran to the end for it.
Processed(i) == i \in 1..last.done

\* C1: after add(n) on the session (A, B), for a name n that B has, the value
\* stored under n on A is the very object stored under n on B, whatever the
\* registry held before the call.
C1_AddInstallsSourceValue ==
    (last.op = "add" /\ last.exc = "none") =>
        \A i \in DOMAIN last.attrs :
            attrs[last.target][last.attrs[i].id] = attrs[last.source][last.attrs[i].id]

\* C2: when merge is applied to a name under which the target and the new
\* value are both lists, the target still holds the list object it held
\* before, and that list now reads old elements followed by new elements.
C2_MergeExtendsListInPlace ==
    (PatchOp /\ last.merge /\ last.exc = "none") =>
        \A i \in DOMAIN last.items :
            LET n == last.items[i].name
                new == last.items[i].value
                old == pre.attrs[last.target][n]
            IN (Processed(i) /\ old.kind = "list" /\ new.kind = "list") =>
                    /\ attrs[last.target][n] = old
                    /\ lists[old.id] = pre.lists[old.id] \o pre.lists[new.id]

\* C3: when merge is applied to a name under which the target and the new
\* value are both dicts, the target's attribute afterwards has every key it
\* had before and every key of the new value, new values winning.
C3_MergeUpsertsDict ==
    (PatchOp /\ last.merge /\ last.exc = "none") =>
        \A i \in DOMAIN last.items :
            LET n == last.items[i].name
                new == last.items[i].value
                old == pre.attrs[last.target][n]
                now == attrs[last.target][n]
            IN (Processed(i) /\ old.kind = "dict" /\ new.kind = "dict") =>
                    /\ now.kind = "dict"
                    /\ \A k \in DOMAIN pre.dicts[old.id] \cup DOMAIN pre.dicts[new.id] :
                        /\ k \in DOMAIN dicts[now.id]
                        /\ dicts[now.id][k] =
                            IF k \in DOMAIN pre.dicts[new.id]
                            THEN pre.dicts[new.id][k] ELSE pre.dicts[old.id][k]

\* C4: when callable f is applied under n to a class A that holds another
\* callable g under n, a call of f with self bound to an instance x of A
\* whose super_patchy(*args) uses the default do_call enters g with x
\* followed by args, and gets g's result back.
C4_CallThroughEntersReplaced ==
    (called.op = "call" /\ PatchOp /\ last.exc = "none") =>
        \A i \in DOMAIN last.items :
            LET n == last.items[i].name
                g == pre.attrs[last.target][n]
                f == called.func
                callargs == <<called.self>> \o called.args
            IN (/\ last.items[i].value = F(f)
                /\ callable(g) /\ g # F(f)
                /\ InstanceOf(called.self) = last.target) =>
                    /\ called.exc = "none"
                    /\ Len(called.trace) >= 2
                    /\ called.trace[2] = [func |-> g.id, args |-> callargs]
                    /\ called.value =
                        Append(Invoke(records, g.id, callargs, MaxDepth).value, MarkOf(f))

\* C5: applying the same patch of a callable f under n twice in a row leaves
\* the registry with an entry for f that is the one the first apply
\* recorded, and n on the target is f after the first and after the second.
C5_ReapplyKeepsPredecessor ==
    (PatchOp /\ last.again /\ last.exc = "none") =>
        \A i \in DOMAIN last.items :
            LET n == last.items[i].name
                f == last.items[i].value
            IN callable(f) =>
                    /\ KeyOf(f) \in DOMAIN records
                    /\ KeyOf(f) \in DOMAIN pre.records
                    /\ records[KeyOf(f)] = pre.records[KeyOf(f)]
                    /\ pre.attrs[last.target][n] = f
                    /\ attrs[last.target][n] = f

\* C6: if f was never written by the apply engine, or only ever onto names
\* the target held no value under, super_patchy called from f raises
\* RuntimeError and enters no function.
C6_NoPredecessorRaises ==
    (called.op = "call" /\ \A e \in installed : e.func = called.func => ~e.had) =>
        /\ called.exc = "RuntimeError"
        /\ called.trace = <<[func |-> called.func, args |-> <<called.self>> \o called.args]>>

\* C7: auto called with an explicit source S copies into the target, for
\* every name auto selected from S, the value S holds under that name.
C7_AutoCopiesExplicitSource ==
    (last.op = "auto" /\ last.explicit # "None") =>
        /\ last.exc = "none"
        /\ \A i \in DOMAIN last.attrs :
            attrs[last.target][last.attrs[i].id] = attrs[last.explicit][last.attrs[i].id]

\* C8: in one call of apply the items are processed in order; when the
\* duplicate-patching guard fires on an item, that item and every later one
\* are left unwritten and unrecorded while every earlier one stays written;
\* without the guard firing every item is written.
C8_GuardCutsBatchShort ==
    (PatchOp /\ last.exc = "none") =>
        /\ last.returned <=>
            \E i \in DOMAIN last.items :
                /\ i = last.done + 1
                /\ callable(last.items[i].value)
                /\ callable(attrs[last.target][last.items[i].name])
                /\ Records_contains(records, last.items[i].value)
        /\ ~last.returned => last.done = Len(last.items)
        /\ \A i \in DOMAIN last.items :
            IF Processed(i)
            THEN attrs[last.target][last.items[i].name] = last.items[i].value
            ELSE attrs[last.target][last.items[i].name]
                    = pre.attrs[last.target][last.items[i].name]
        /\ \A k \in DOMAIN pre.records :
            k \in DOMAIN records /\ records[k] = pre.records[k]
        /\ \A k \in DOMAIN records \ DOMAIN pre.records :
            \E i \in DOMAIN last.items : Processed(i) /\ KeyOf(last.items[i].value) = k

\* A batch in which the guard fired after an earlier item had been written:
\* the target is left partially applied.
C8_Witness ==
    /\ PatchOp /\ last.exc = "none" /\ last.returned
    /\ last.done >= 1 /\ Len(last.items) > last.done
    /\ attrs[last.target][last.items[1].name] # pre.attrs[last.target][last.items[1].name]
    /\ attrs[last.target][last.items[last.done + 1].name] # last.items[last.done + 1].value

\* C13: in a single-threaded run a registry entry, once made, is never
\* removed and never changes; and an operation whose callables all have an
\* entry already leaves the registry exactly as it was.
C13_RegistryEntriesPermanent ==
    /\ [][\A k \in DOMAIN records : k \in DOMAIN records' /\ records'[k] = records[k]]_vars
    /\ []((\A i \in DOMAIN last.items :
                callable(last.items[i].value) =>
                    Records_contains(pre.records, last.items[i].value))
            => records = pre.records)

\* A callable that has an entry was applied again, to a target holding
\* another callable under that name.
C13_Witness ==
    /\ PatchOp /\ last.exc = "none"
    /\ \E i \in DOMAIN last.items :
        /\ callable(last.items[i].value)
        /\ Records_contains(pre.records, last.items[i].value)
        /\ callable(pre.attrs[last.target][last.items[i].name])
        /\ pre.attrs[last.target][last.items[i].name] # last.items[i].value
    /\ records = pre.records

\* C14: when a name holding callable p is patched with a distinct callable
\* f, the target holds f, the registry maps f to p, and a call-through
\* started in f enters p and then everything p's own chain enters, each
\* function once, and terminates.
C14_ChainVisitsEachOnce ==
    (PatchOp /\ last.exc = "none") =>
        \A i \in DOMAIN last.items :
            LET n == last.items[i].name
                f == last.items[i].value
                p == pre.attrs[last.target][n]
                callargs == <<called.self>> \o called.args
            IN (callable(f) /\ callable(p) /\ f # p) =>
                /\ attrs[last.target][n] = f
                /\ Records_contains(records, f)
                /\ records[KeyOf(f)] = p
                /\ (/\ called.op = "call" /\ called.func = f.id
                    /\ InstanceOf(called.self) = last.target) =>
                        /\ called.exc = "none"
                        /\ called.trace = <<[func |-> f.id, args |-> callargs]>>
                                \o Invoke(pre.records, p.id, callargs, MaxDepth).trace
                        /\ \A a, b \in DOMAIN called.trace :
                                a # b => called.trace[a].func # called.trace[b].func
                        /\ called.trace[Len(called.trace)].func \in Originals

\* C15: add_desc leaves the registry as it was, whatever it writes, and
\* when it completes every given attribute is on the target: the guard of
\* apply never stands in its way.
C15_AddDescBypassesRegistry ==
    (last.op = "add_desc") =>
        /\ records = pre.records
        /\ last.exc = "none" =>
            /\ \A i \in DOMAIN last.attrs :
                LET a == last.attrs[i]
                    n == IF hasName(a) THEN NameOf(a.id) ELSE a.id
                    v == IF hasName(a) THEN a ELSE pre.attrs[last.source][n]
                IN attrs[last.target][n] = v
            /\ \A j \in DOMAIN last.kw.items :
                LET n == last.kw.items[j].name
                IN (\A i \in DOMAIN last.attrs :
                        n # (IF hasName(last.attrs[i]) THEN NameOf(last.attrs[i].id)
                             ELSE last.attrs[i].id))
                    => attrs[last.target][n] = last.kw.items[j].value

\* add_desc wrote a callable that has a registry entry over another
\* callable: the case in which apply would have returned early.
C15_Witness ==
    /\ last.op = "add_desc" /\ last.exc = "none"
    /\ \E i \in DOMAIN last.items :
        LET n == last.items[i].name
            v == last.items[i].value
        IN /\ callable(v) /\ callable(pre.attrs[last.target][n])
           /\ Records_contains(pre.records, v)
           /\ pre.attrs[last.target][n] # v
           /\ attrs[last.target][n] = v

\* C16: no registry entry maps a callable to itself, and no call-through
\* re-enters the function it started in.
C16_NoSelfMapping ==
    /\ \A k \in DOMAIN records : ~(callable(records[k]) /\ KeyOf(records[k]) = k)
    /\ called.op = "call" =>
        /\ called.exc # "RecursionError"
        /\ \A i \in DOMAIN called.trace : i > 1 => called.trace[i].func # called.func

\* The contents of the container v in the state st (<<>> for other values).
Contents(st, v) ==
    IF v.kind = "list" THEN st.lists[v.id]
    ELSE IF v.kind = "dict" THEN st.dicts[v.id]
    ELSE <<>>

\* C17: add, merge and auto leave the source as it was: it holds the same
\* values, and every container among them has the same contents.
C17_SourceUnchanged ==
    (last.op \in {"add", "merge", "auto"}) =>
        \A n \in Names :
            /\ attrs[last.source][n] = pre.attrs[last.source][n]
            /\ Contents(Cur, attrs[last.source][n]) = Contents(pre, attrs[last.source][n])

\* C18: a call of the apply engine with a string entry the source does not
\* have raises AttributeError and writes nothing: the target, the heap and
\* the registry are as they were, also for entries placed before it.
C18_MissingEntryRaisesBeforeWrite ==
    (PatchOp /\ \E i \in DOMAIN last.attrs :
                    /\ last.attrs[i].kind = "str"
                    /\ pre.attrs[last.source][last.attrs[i].id] = NoneV) =>
        /\ last.exc = "AttributeError"
        /\ Cur = pre

\* A batch whose first entry is valid and would have changed the target,
\* and whose second entry the source does not have.
C18_Witness ==
    /\ PatchOp /\ last.exc = "AttributeError" /\ Len(last.attrs) >= 2
    /\ last.attrs[1].kind = "str" /\ last.attrs[2].kind = "str"
    /\ pre.attrs[last.source][last.attrs[1].id] # NoneV
    /\ pre.attrs[last.source][last.attrs[2].id] = NoneV
    /\ pre.attrs[last.target][last.attrs[1].id] # pre.attrs[last.source][last.attrs[1].id]
    /\ attrs[last.target][last.attrs[1].id] = pre.attrs[last.target][last.attrs[1].id]

\* C19: auto on a source from which nothing is selected completes without
\* raising and changes nothing.
C19_AutoOnNothingEligible ==
    (last.op = "auto" /\ last.attrs = <<>>) =>
        /\ last.exc = "none"
        /\ Cur = pre

-----------------------------------------------------------------------------
(* Calls of resolve *)

DottedNames == UNION {[1..n -> Components] : n \in 1..MaxDots}

PackageArgs == {NoObj, Mod(<<"pkg">>), StrArg(<<"pkg">>), StrArg(<<"pkg", "sub">>),
                StrArg(<<"nope">>)}

\* resolve(name, package) is called, once in a run.
Resolve(name, package) ==
    LET r == resolve(name, package)
    IN /\ rcall.name = <<>>
       /\ rcall' = [name |-> name, package |-> package, exc |-> r.exc,
                    result |-> r.result, message |-> r.message]
       /\ UNCHANGED <<attrs, lists, dicts, records, nops, last, pre, installed,
                      called, thr, order, pcall>>

NextResolve == \E name \in DottedNames, package \in PackageArgs : Resolve(name, package)

SpecResolve == Init /\ [][NextResolve]_vars

\* text holds part as a contiguous piece.
Contains(text, part) ==
    \E i \in 1..(Len(text) - Len(part) + 1) : SubSeq(text, i, i + Len(part) - 1) = part

\* The module a package argument stands for, NoObj when there is none.
PackageModule(package) ==
    IF package.kind = "str"
    THEN (IF package.path \in Modules THEN Mod(package.path) ELSE NoObj)
    ELSE package

\* None of the three lookups of resolve finds name in the context package.
Unresolvable(name, package) ==
    LET ctx == PackageModule(package)
        prefix == ctx.path \o SubSeq(name, 1, Len(name) - 1)
    IN /\ ctx.path \o name \notin Modules
       /\ ~(Len(name) > 1 /\ prefix \in Modules /\ name[Len(name)] \in ModAttrs(prefix))
       /\ ~(Len(name) = 1 /\ ctx.kind = "module" /\ name[1] \in ModAttrs(ctx.path))

\* C10: when none of the lookups succeeds, resolve raises ImportError with
\* a message that holds the full dotted path requested and, when a context
\* was given, the context.
C10_FailureNamesRequestedPath ==
    (rcall.name # <<>> /\ Unresolvable(rcall.name, rcall.package)) =>
        /\ rcall.exc \in {"ImportError", "ModuleNotFoundError"}
        /\ Contains(rcall.message, Dotted(rcall.name))
        /\ rcall.package.kind # "none" => Contains(rcall.message, Dotted(rcall.package.path))

-----------------------------------------------------------------------------
(* Calls of the entry points *)

\* Targets handed to patchy and mod: dotted names and objects.
EntryTargets ==
    {StrArg(n) : n \in DottedNames}
        \cup {Mod(<<"pkg", "sub">>), Attr(<<"pkg", "Cls">>), Attr(<<"pkg", "sub", "fn">>), IntObj}

PatchySources ==
    {NoObj, StrArg(<<"pkg", "sub", "Cls">>), StrArg(<<"nope">>),
     Attr(<<"pkg", "sub", "Cls">>), Mod(<<"pkg", "sub">>)}

ModSources == {NoObj, StrArg(<<"Cls">>), StrArg(<<"nope">>)}

\* The module-patch session mod is called on: PatchModule(pkg, self_source).
SessionTarget == Mod(<<"pkg">>)
SessionSources == {NoObj, Mod(<<"pkg", "sub">>)}

\* patchy(target, source) is called, once in a run.
Patchy(target, source) ==
    LET r == patchy(target, source)
    IN /\ pcall.op = "none"
       /\ pcall' = [op |-> "patchy", self_target |-> NoObj, self_source |-> NoObj,
                    target |-> target, source |-> source, exc |-> r.exc,
                    session |-> r.session, new_target |-> r.target,
                    new_source |-> r.source]
       /\ UNCHANGED <<attrs, lists, dicts, records, nops, last, pre, installed,
                      called, thr, order, rcall>>

\* PatchModule(pkg, self_source).mod(target, source) is called, once in a run.
ModCall(self_source, target, source) ==
    LET r == mod(SessionTarget, self_source, target, source)
    IN /\ pcall.op = "none"
       /\ pcall' = [op |-> "mod", self_target |-> SessionTarget,
                    self_source |-> self_source, target |-> target,
                    source |-> source, exc |-> r.exc, session |-> r.session,
                    new_target |-> r.target, new_source |-> r.source]
       /\ UNCHANGED <<attrs, lists, dicts, records, nops, last, pre, installed,
                      called, thr, order, rcall>>

NextEntry ==
    \/ \E t \in EntryTargets, s \in PatchySources : Patchy(t, s)
    \/ \E ss \in SessionSources, t \in EntryTargets, s \in ModSources : ModCall(ss, t, s)

SpecEntry == Init /\ [][NextEntry]_vars

\* The target of the call of mod does not stand for a module: a name under
\* which the session's module has no submodule, or an object that is not a
\* module.
NotAModule ==
    IF pcall.target.kind = "str"
    THEN (pcall.self_target.path \o pcall.target.path) \notin Modules
    ELSE TypeOf(pcall.target) # "module"

\* C11: mod(target) with a target that cannot be resolved to a module
\* raises nothing and returns no session, whatever the target is and
\* whether or not the session has a source; target, source and registry
\* stay as they were.
C11_ModFailsSilently ==
    (pcall.op = "mod" /\ NotAModule) =>
        /\ pcall.exc = "none"
        /\ pcall.session = "None"
        /\ Cur = pre

\* The object an argument of patchy stands for once a name is resolved.
ResolvedArg(arg) == IF arg.kind = "str" THEN resolve(arg.path, NoObj) ELSE
                        [exc |-> "none", result |-> arg]

-----------------------------------------------------------------------------
(* Two threads inside PatchBase.apply *)

\* Each thread runs the loop of lines 138-154 for one item, greet = value,
\* on its own target; the interpreter may switch threads between statements.
Threads == {"t1", "t2"}

UnchangedByThreads ==
    UNCHANGED <<lists, dicts, nops, last, pre, installed, called, rcall, pcall>>

\* apply is entered with kattrs = {greet: value} on target.
T_Enter(th, target, value) ==
    /\ thr[th].pc = "idle"
    /\ thr' = [thr EXCEPT ![th] = [pc |-> "read", target |-> target, value |-> value,
                                   old_value |-> NoneV]]
    /\ UNCHANGED <<attrs, records, order>>
    /\ UnchangedByThreads

\* Line 139: old_value = inspect.getattr_static(self.target, attr, None)
T_Read(th) ==
    /\ thr[th].pc = "read"
    /\ thr' = [thr EXCEPT ![th].old_value = getattr_static(Cur, thr[th].target, "greet"),
                          ![th].pc = "check"]
    /\ UNCHANGED <<attrs, records, order>>
    /\ UnchangedByThreads

\* Lines 141-144: the guard; line 144 returns from apply.
T_Check(th) ==
    /\ thr[th].pc = "check"
    /\ thr' = [thr EXCEPT ![th].pc =
                IF callable(thr[th].value) /\ callable(thr[th].old_value)
                THEN (IF Records_contains(records, thr[th].value) THEN "done" ELSE "record")
                ELSE "write"]
    /\ UNCHANGED <<attrs, records, order>>
    /\ UnchangedByThreads

\* Line 145: patchy_records[value] = old_value
T_Record(th) ==
    /\ thr[th].pc = "record"
    /\ records' = Records_setitem(records, thr[th].value, thr[th].old_value)
    /\ order' = Append(order, th)
    /\ thr' = [thr EXCEPT ![th].pc = "write"]
    /\ UNCHANGED attrs
    /\ UnchangedByThreads

\* Line 154: setattr(self.target, attr, value)
T_Write(th) ==
    /\ thr[th].pc = "write"
    /\ attrs' = setattr(Cur, thr[th].target, "greet", thr[th].value).attrs
    /\ thr' = [thr EXCEPT ![th].pc = "done"]
    /\ UNCHANGED <<records, order>>
    /\ UnchangedByThreads

NextThreads ==
    \/ \E th \in Threads, t \in Targets, f \in Patches : T_Enter(th, t, F(f))
    \/ \E th \in Threads : T_Read(th)
    \/ \E th \in Threads : T_Check(th)
    \/ \E th \in Threads : T_Record(th)
    \/ \E th \in Threads : T_Write(th)

SpecThreads == Init /\ [][NextThreads]_vars

\* C9: the check of line 143 and the record of line 145 are not atomic.  A
\* thread that is about to record under a key the registry already holds
\* passed its check before another thread recorded that key; and once both
\* threads have recorded under one key, the registry holds what the second
\* one recorded, the first record being overwritten.
C9_CheckThenRecordRace ==
    /\ \A th \in Threads :
        (thr[th].pc = "record" /\ Records_contains(records, thr[th].value)) =>
            \E o \in Threads \ {th} :
                /\ \E i \in DOMAIN order : order[i] = o
                /\ KeyOf(thr[o].value) = KeyOf(thr[th].value)
    /\ (Len(order) = 2 /\ KeyOf(thr[order[1]].value) = KeyOf(thr[order[2]].value)) =>
            records[KeyOf(thr[order[2]].value)] = Strip(thr[order[2]].old_value)

\* Both threads passed the check for the same callable and both recorded:
\* the predecessor the first recorded is no longer in the registry.
C9_Witness ==
    /\ Len(order) = 2
    /\ thr[order[1]].value = thr[order[2]].value
    /\ thr[order[1]].old_value # thr[order[2]].old_value
    /\ records[KeyOf(thr[order[1]].value)] # Strip(thr[order[1]].old_value)

====
